---- MODULE Spec2Model ----
(***************************************************************************)
(* Model of midirenderer's audio transcoding pipeline:                     *)
(*   - the WAV container writers (render_midi_to_wav, render_midi_with),   *)
(*   - the WAV container reader (parse_wav_header),                        *)
(*   - the sample normalisation and Ogg/Opus packetizer (wav_to_opus_ogg,  *)
(*     pad_chunk).                                                         *)
(* The synthesizer and the Opus encoder are external: the rendered float   *)
(* samples are drawn from a small set of patterns and every encoder call   *)
(* may succeed or fail.                                                    *)
(***************************************************************************)
EXTENDS Integers, Sequences, FiniteSets, TLC

VARIABLES
    usize_bits,        \* the build: width of usize on the target (32 or 64)
    overflow_checks,   \* the build: TRUE = debug (overflow panics), FALSE = release (wraps)
    pc,                \* position in the pipeline
    origin,            \* who produced wav_data
    sample_count,      \* the writer's sample_count
    wav_data,          \* the container bytes
    stereo,            \* wav_to_opus_ogg's `stereo` argument
    data_start,        \* parse_wav_header's scan offset
    wav_header,        \* parse_wav_header's return value
    max_read,          \* history: one past the highest byte index parse_wav_header read
    overrun,           \* history: a walked chunk's declared size ran past the input
    samples,           \* the normalized Vec<i16>
    ogg_output,        \* the packets written so far (local to wav_to_opus_ogg)
    granule_position,  \* the running position counter
    frames,            \* history: the length of every chunk handed to encoder.encode
    result,            \* what the caller receives
    pad_arg,           \* pad_chunk's arguments (chunk, channels)
    pad_ret            \* pad_chunk's return value

vars == <<usize_bits, overflow_checks, pc, origin, sample_count, wav_data, stereo,
          data_start, wav_header, max_read, overrun, samples, ogg_output,
          granule_position, frames, result, pad_arg, pad_ret>>

(***************************************************************************)
(* Program constants.                                                      *)
(***************************************************************************)
SAMPLE_RATE == 48000
FRAME_SIZE == 960
MAX_PACKET_SIZE == 1275
MINIMUM_FRAME_SIZE == 480
LIB_SAMPLE_RATE == 44100
MIN_HEADER == 44

(***************************************************************************)
(* Bounds of the model.                                                    *)
(***************************************************************************)
\* full 20 ms frames of source audio in an input, before its partial tail
MaxFullFrames == 2
\* bytes that follow the last chunk header of a supplied container
MaxTrail == 10

(***************************************************************************)
(* Wide naturals.  TLC's integers are 32-bit, the program's usize and u32  *)
(* values reach 2^32 and beyond, so such a value is kept as two limbs:     *)
(* hi * 2^16 + lo.  Values stay far below 2^47.                            *)
(***************************************************************************)
LIMB == 2^16

W(n) == [hi |-> n \div LIMB, lo |-> n % LIMB]

WAdd(a, b) ==
    LET s == a.lo + b.lo
    IN  [hi |-> a.hi + b.hi + (s \div LIMB), lo |-> s % LIMB]

WSub(a, b) ==
    IF a.lo >= b.lo
    THEN [hi |-> a.hi - b.hi, lo |-> a.lo - b.lo]
    ELSE [hi |-> a.hi - b.hi - 1, lo |-> a.lo + LIMB - b.lo]

WLt(a, b) == a.hi < b.hi \/ (a.hi = b.hi /\ a.lo < b.lo)

WLe(a, b) == ~WLt(b, a)

WMul4(a) == WAdd(WAdd(a, a), WAdd(a, a))

\* the value as a plain integer (only for values below 2^31)
WInt(a) == a.hi * LIMB + a.lo

Fits32(a) == a.hi < LIMB

\* `x as u32`: truncation to the low 32 bits
as_u32(a) == [hi |-> a.hi % LIMB, lo |-> a.lo]

\* isize::MAX on a 32-bit target
ISIZE_MAX_32 == [hi |-> (LIMB \div 2) - 1, lo |-> LIMB - 1]

(***************************************************************************)
(* usize arithmetic of the build.                                          *)
(***************************************************************************)
\* a mathematical result does not fit in usize
UsizeOverflows(w) == usize_bits = 32 /\ ~Fits32(w)

\* the wrapped result of a release build
UsizeWrap(w) == IF usize_bits = 32 THEN as_u32(w) ELSE w

\* usize::checked_add: None on overflow
None == [some |-> FALSE]
Some(w) == [some |-> TRUE, val |-> w]
checked_add(a, b) ==
    LET s == WAdd(a, b) IN IF UsizeOverflows(s) THEN None ELSE Some(s)

(***************************************************************************)
(* Bytes.                                                                  *)
(***************************************************************************)
RIFF == <<82, 73, 70, 70>>
WAVE == <<87, 65, 86, 69>>
FMT_ == <<102, 109, 116, 32>>
DATA == <<100, 97, 116, 97>>
LIST == <<76, 73, 83, 84>>
RIFX == <<82, 73, 70, 88>>

\* u32::to_le_bytes
u32_to_le_bytes(w) == <<w.lo % 256, w.lo \div 256, w.hi % 256, w.hi \div 256>>

\* u16::to_le_bytes
u16_to_le_bytes(v) == <<v % 256, v \div 256>>

\* i16::to_le_bytes: two's complement
i16_to_le_bytes(v) == u16_to_le_bytes(v % 65536)

\* u32::from_le_bytes
u32_from_le_bytes(b) == [hi |-> b[4] * 256 + b[3], lo |-> b[2] * 256 + b[1]]

\* u16::from_le_bytes
u16_from_le_bytes(b) == b[2] * 256 + b[1]

\* i16::from_le_bytes
i16_from_le_bytes(b) ==
    LET u == b[2] * 256 + b[1] IN IF u >= 32768 THEN u - 65536 ELSE u

\* write_u32: appends the four little-endian bytes
write_u32(output, value) == output \o u32_to_le_bytes(value)

Zeros(k) == [i \in 1..k |-> 0]

(***************************************************************************)
(* Rendered samples (the synthesizer's output), in units of 1/32768, and   *)
(* their conversion to i16.                                                *)
(***************************************************************************)
\* sample of channel ch (0 = left, 1 = right) at frame f of pattern p
Rendered(p, ch, f) ==
    IF p = 0 THEN 0
    ELSE LET l == (((f + p) % 8) - 3) * 12000
         IN  IF ch = 0 THEN l ELSE 5 - l

Clamp(x, lo, hi) == IF x < lo THEN lo ELSE IF x > hi THEN hi ELSE x

\* integer division truncating toward zero (`as i16` of a float)
TruncDiv(a, b) == IF a >= 0 THEN a \div b ELSE 0 - ((0 - a) \div b)

\* (l.clamp(-1.0, 0.99999994) * 32768.0) as i16
f32_to_i16_utils(x) == Clamp(x, -32768, 32767)

\* (l.max(-1.0).min(1.0) * 32767.0) as i16
f32_to_i16_lib(x) == TruncDiv(Clamp(x, -32768, 32768) * 32767, 32768)

(***************************************************************************)
(* The container bytes.  The first Len(pre) bytes are kept explicitly; the *)
(* n bytes after them are the sample region, given by `gen`: either raw    *)
(* bytes of a pattern (a container supplied by the caller) or the bytes    *)
(* the writer's sample loop wrote.                                         *)
(***************************************************************************)
RawByte(p, j) ==
    IF p = 0 THEN 0
    ELSE IF p = 1 THEN 128
    ELSE (j.lo * 37 + 11 * p) % 256

\* byte j of the writer's sample loop: frame j / 4, left then right, 2 bytes each
WriterByte(kind, p, j) ==
    LET f  == j.lo \div 4
        ch == (j.lo % 4) \div 2
        x  == Rendered(p, ch, f)
        v  == IF kind = "render_midi_to_wav" THEN f32_to_i16_utils(x)
              ELSE f32_to_i16_lib(x)
    IN  i16_to_le_bytes(v)[(j.lo % 2) + 1]

TailByte(gen, j) ==
    IF gen.kind = "raw" THEN RawByte(gen.pat, j) ELSE WriterByte(gen.kind, gen.pat, j)

\* data.len()
WavLen(w) == WAdd(W(Len(w.pre)), w.n)

\* data[i]
ByteAt(w, i) ==
    IF i.hi = 0 /\ i.lo < Len(w.pre)
    THEN w.pre[i.lo + 1]
    ELSE TailByte(w.gen, WSub(i, W(Len(w.pre))))

\* &data[a..a+k] for small a
Slice(w, a, k) == [i \in 1..k |-> ByteAt(w, WAdd(a, W(i - 1)))]

NoWav == [pre |-> <<>>, n |-> W(0), gen |-> [kind |-> "raw", pat |-> 0]]

(***************************************************************************)
(* Results.                                                                *)
(***************************************************************************)
NoResult == [kind |-> "none", err |-> "", msg |-> "", packets |-> <<>>]
Ok(out) == [kind |-> "Ok", err |-> "", msg |-> "", packets |-> out]
Err(e, m) == [kind |-> "Err", err |-> e, msg |-> m, packets |-> <<>>]
Panic(m) == [kind |-> "Panic", err |-> "", msg |-> m, packets |-> <<>>]

NoHeader ==
    [kind |-> "none", msg |-> "", channels |-> 0, sample_rate |-> W(0),
     bits_per_sample |-> 0, data_start |-> W(0)]
HeaderErr(m) == [NoHeader EXCEPT !.kind = "Err", !.msg = m]

(***************************************************************************)
(* The container writers.                                                  *)
(***************************************************************************)
WriterRate(kind) == IF kind = "render_midi_to_wav" THEN SAMPLE_RATE ELSE LIB_SAMPLE_RATE

\* the 44 header bytes, in the order the writer appends them
WriterHeader(kind, riff_size, data_size) ==
    LET rate == WriterRate(kind)
        h1 == write_u32(RIFF, riff_size) \o WAVE
        h2 == write_u32(h1 \o FMT_, W(16))
        h3 == h2 \o u16_to_le_bytes(1) \o u16_to_le_bytes(2)
        h4 == write_u32(write_u32(h3, W(rate)), W(rate * 4))
        h5 == h4 \o u16_to_le_bytes(4) \o u16_to_le_bytes(16)
    IN  write_u32(h5 \o DATA, data_size)

\* `(sample_count * 4) as u32`
DataSizeField(sc) == as_u32(WMul4(W(sc)))

\* `36 + (sample_count * 4) as u32`, before any wrapping
RiffSizeSum(sc) == WAdd(W(36), DataSizeField(sc))

\* Vec::with_capacity / vec![0.0; sample_count] of f32: more than isize::MAX bytes
CapacityOverflow(sc) == usize_bits = 32 /\ WLt(ISIZE_MAX_32, WMul4(W(sc)))

\* render_midi_to_wav (audio_utils.rs) and render_midi_with (lib.rs), from the
\* rendered buffers on: inputs are <<sample_count, pattern>>
Render(kind, Inputs) ==
    /\ pc = "idle"
    /\ \E inp \in Inputs :
         LET sc == inp[1]
             p  == inp[2]
         IN  /\ sample_count' = sc
             /\ origin' = kind
             /\ IF CapacityOverflow(sc)
                THEN /\ result' = Panic("capacity overflow")
                     /\ pc' = "done"
                     /\ wav_data' = wav_data
                ELSE IF ~Fits32(RiffSizeSum(sc)) /\ overflow_checks
                THEN /\ result' = Panic("attempt to add with overflow")
                     /\ pc' = "done"
                     /\ wav_data' = wav_data
                ELSE /\ wav_data' =
                          [pre |-> WriterHeader(kind, as_u32(RiffSizeSum(sc)),
                                                DataSizeField(sc)),
                           n   |-> WMul4(W(sc)),
                           gen |-> [kind |-> kind, pat |-> p]]
                     /\ pc' = "have_wav"
                     /\ result' = result
    /\ UNCHANGED <<usize_bits, overflow_checks, stereo, data_start, wav_header,
                   max_read, overrun, samples, ogg_output, granule_position,
                   frames, pad_arg, pad_ret>>

(***************************************************************************)
(* Containers supplied by the caller.                                      *)
(***************************************************************************)
\* RIFF/WAVE preamble and format chunk: 36 bytes
FmtHeader(ch, rate, bits) ==
    RIFF \o u32_to_le_bytes(W(36)) \o WAVE \o FMT_ \o u32_to_le_bytes(W(16))
         \o u16_to_le_bytes(1) \o u16_to_le_bytes(ch)
         \o u32_to_le_bytes(W(rate))
         \o u32_to_le_bytes(W(rate * ch * (bits \div 8)))
         \o u16_to_le_bytes(ch * (bits \div 8)) \o u16_to_le_bytes(bits)

Raw(pre, n, p) == [pre |-> pre, n |-> W(n), gen |-> [kind |-> "raw", pat |-> p]]

\* format chunk, data chunk, n sample bytes
Canonical(ch, rate, bits, n, p) ==
    Raw(FmtHeader(ch, rate, bits) \o DATA \o u32_to_le_bytes(W(n)), n, p)

\* a LIST chunk of k bytes between the format chunk and the data chunk
ExtraChunk(k, n, p) ==
    Raw(FmtHeader(2, SAMPLE_RATE, 16) \o LIST \o u32_to_le_bytes(W(k)) \o Zeros(k)
            \o DATA \o u32_to_le_bytes(W(n)), n, p)

\* no data chunk: a LIST chunk declaring sz bytes, followed by t bytes
NoDataChunk(sz, t) ==
    Raw(FmtHeader(2, SAMPLE_RATE, 16) \o LIST \o u32_to_le_bytes(sz) \o Zeros(t), 0, 0)

Truncated(k) == Raw(SubSeq(Canonical(2, SAMPLE_RATE, 16, 8, 2).pre, 1, k), 0, 0)

BadMagic(n) ==
    Raw(RIFX \o SubSeq(Canonical(2, SAMPLE_RATE, 16, n, 2).pre, 5, MIN_HEADER), n, 2)

\* source frame counts: full frames plus a tail around the 10 ms / 20 ms marks
TailFrames == {0, 1, MINIMUM_FRAME_SIZE - 1, MINIMUM_FRAME_SIZE,
               MINIMUM_FRAME_SIZE + 1, FRAME_SIZE - 1}
FrameCounts == {k * FRAME_SIZE + d : k \in 0..MaxFullFrames, d \in TailFrames}

\* 2^32 - k
Pow32Minus(k) == [hi |-> LIMB - 1, lo |-> LIMB - k]

\* declared sizes of the LIST chunk
ChunkSizes(t) ==
    {W(0), W(t), W(t + 1), W(t + 9), [hi |-> LIMB \div 2, lo |-> 0],
     Pow32Minus(28), Pow32Minus(21), Pow32Minus(20), Pow32Minus(9),
     Pow32Minus(8), Pow32Minus(1)}

Shapes ==
    {Canonical(ch, SAMPLE_RATE, bits, f * ch * (bits \div 8), 2) :
        ch \in {1, 2}, bits \in {8, 16}, f \in FrameCounts}
    \cup {Canonical(1, SAMPLE_RATE, 8, 10, 1),
          Canonical(2, SAMPLE_RATE, 24, 12, 2),
          Canonical(2, LIB_SAMPLE_RATE, 16, 8, 2),
          Canonical(2, SAMPLE_RATE, 16, 13, 2),
          Canonical(1, SAMPLE_RATE, 16, 7, 2)}

Layouts ==
    {ExtraChunk(k, n, 2) : k \in {0, 1, 4}, n \in {0, 1, 8}}
    \cup UNION {{NoDataChunk(sz, t) : sz \in ChunkSizes(t)} : t \in 0..MaxTrail}
    \cup {Truncated(k) : k \in {0, 12, MIN_HEADER - 1}}
    \cup {BadMagic(n) : n \in {0, 8}}

SuppliedInputs == Shapes \cup Layouts

SupplyWav ==
    /\ pc = "idle"
    /\ \E w \in SuppliedInputs : wav_data' = w
    /\ origin' = "caller"
    /\ pc' = "have_wav"
    /\ UNCHANGED <<usize_bits, overflow_checks, sample_count, stereo, data_start,
                   wav_header, max_read, overrun, samples, ogg_output,
                   granule_position, frames, result, pad_arg, pad_ret>>

(***************************************************************************)
(* parse_wav_header.                                                       *)
(***************************************************************************)
WMax(a, b) == IF WLt(a, b) THEN b ELSE a

\* the caller passes the container to wav_to_opus_ogg
CallWavToOpusOgg ==
    /\ pc = "have_wav"
    /\ \E s \in BOOLEAN : stereo' = s
    /\ pc' = "parse"
    /\ UNCHANGED <<usize_bits, overflow_checks, origin, sample_count, wav_data,
                   data_start, wav_header, max_read, overrun, samples, ogg_output,
                   granule_position, frames, result, pad_arg, pad_ret>>

\* lines 43-55: length and magic checks, the fixed-offset reads, data_start = 12
ParseBegin ==
    /\ pc = "parse"
    /\ LET data == wav_data
           fail(m) == /\ wav_header' = HeaderErr(m)
                      /\ result' = Err("WavParsing", m)
                      /\ pc' = "done"
                      /\ UNCHANGED <<data_start, max_read>>
       IN  IF WLt(WavLen(data), W(MIN_HEADER))
           THEN fail("WAV data too short")
           ELSE IF Slice(data, W(0), 4) # RIFF \/ Slice(data, W(8), 4) # WAVE
           THEN fail("Invalid WAV file")
           ELSE /\ data_start' = W(12)
                /\ max_read' = W(36)
                /\ pc' = "walk"
                /\ UNCHANGED <<wav_header, result>>
    /\ UNCHANGED <<usize_bits, overflow_checks, origin, sample_count, wav_data,
                   stereo, overrun, samples, ogg_output, granule_position, frames,
                   pad_arg, pad_ret>>

\* `while data_start + 8 < data.len()`: "panic" (overflow, debug build),
\* "enter" or "exit"
LoopTest(ds, len) ==
    LET s == WAdd(ds, W(8))
    IN  IF UsizeOverflows(s) /\ overflow_checks THEN "panic"
        ELSE IF WLt(UsizeWrap(s), len) THEN "enter"
        ELSE "exit"

\* the scan offset after a chunk that is not the data chunk: `8 + chunk_size`
\* is a plain usize addition, then checked_add
SkipChunk(ds, chunk_size) ==
    LET s == WAdd(W(8), chunk_size)
    IN  IF UsizeOverflows(s) /\ overflow_checks
        THEN [kind |-> "panic"]
        ELSE LET r == checked_add(ds, UsizeWrap(s))
             IN  IF r.some THEN [kind |-> "ok", val |-> r.val]
                 ELSE [kind |-> "err"]

\* lines 56-73: one test of the loop condition and, when it holds, one iteration
ParseLoop ==
    /\ pc = "walk"
    /\ LET data == wav_data
           len  == WavLen(data)
           t    == LoopTest(data_start, len)
           stop(r) == /\ result' = r
                      /\ pc' = "done"
                      /\ UNCHANGED <<data_start, max_read, overrun>>
       IN  IF t = "panic"
           THEN /\ stop(Panic("attempt to add with overflow"))
                /\ wav_header' = wav_header
           ELSE IF t = "exit"
           THEN /\ pc' = "check"
                /\ UNCHANGED <<data_start, max_read, overrun, wav_header, result>>
           ELSE IF ~WLt(WAdd(data_start, W(8)), len)
           THEN \* entered on a wrapped sum: the slice's bounds check panics
                /\ stop(Panic("slice index out of range"))
                /\ wav_header' = wav_header
           ELSE LET chunk_type == Slice(data, data_start, 4)
                    chunk_size ==
                        u32_from_le_bytes(Slice(data, WAdd(data_start, W(4)), 4))
                    next == SkipChunk(data_start, chunk_size)
                IN  /\ max_read' = WMax(max_read, WAdd(data_start, W(8)))
                    /\ IF chunk_type = DATA
                       THEN /\ data_start' = WAdd(data_start, W(8))
                            /\ pc' = "check"
                            /\ UNCHANGED <<overrun, wav_header, result>>
                       ELSE /\ overrun' =
                                (overrun \/ WLt(len, WAdd(WAdd(data_start, W(8)),
                                                          chunk_size)))
                            /\ IF next.kind = "panic"
                               THEN /\ result' = Panic("attempt to add with overflow")
                                    /\ pc' = "done"
                                    /\ UNCHANGED <<data_start, wav_header>>
                               ELSE IF next.kind = "err"
                               THEN /\ wav_header' = HeaderErr("Invalid chunk size")
                                    /\ result' = Err("WavParsing", "Invalid chunk size")
                                    /\ pc' = "done"
                                    /\ UNCHANGED data_start
                               ELSE /\ data_start' = next.val
                                    /\ pc' = "walk"
                                    /\ UNCHANGED <<wav_header, result>>
    /\ UNCHANGED <<usize_bits, overflow_checks, origin, sample_count, wav_data,
                   stereo, samples, ogg_output, granule_position, frames,
                   pad_arg, pad_ret>>

\* lines 75-85: the final check and the returned header
ParseCheck ==
    /\ pc = "check"
    /\ LET data == wav_data
       IN  IF WLe(WavLen(data), data_start)
           THEN /\ wav_header' = HeaderErr("No data chunk found")
                /\ result' = Err("WavParsing", "No data chunk found")
                /\ pc' = "done"
           ELSE /\ wav_header' =
                      [kind |-> "Ok", msg |-> "",
                       channels |-> u16_from_le_bytes(Slice(data, W(22), 2)),
                       sample_rate |-> u32_from_le_bytes(Slice(data, W(24), 4)),
                       bits_per_sample |-> u16_from_le_bytes(Slice(data, W(34), 2)),
                       data_start |-> data_start]
                /\ pc' = "rate"
                /\ result' = result
    /\ UNCHANGED <<usize_bits, overflow_checks, origin, sample_count, wav_data,
                   stereo, data_start, max_read, overrun, samples, ogg_output,
                   granule_position, frames, pad_arg, pad_ret>>

(***************************************************************************)
(* wav_to_opus_ogg after the header is parsed.                             *)
(***************************************************************************)
\* `channels as usize`: Channels::Mono = 1, Channels::Stereo = 2
Channels(st) == IF st THEN 2 ELSE 1

\* lines 165-170: the sample rate check
CheckRate ==
    /\ pc = "rate"
    /\ IF wav_header.sample_rate # W(SAMPLE_RATE)
       THEN /\ result' = Err("WavParsing", "Unsupported sample rate")
            /\ pc' = "done"
       ELSE /\ pc' = "encoder"
            /\ result' = result
    /\ UNCHANGED <<usize_bits, overflow_checks, origin, sample_count, wav_data,
                   stereo, data_start, wav_header, max_read, overrun, samples,
                   ogg_output, granule_position, frames, pad_arg, pad_ret>>

OpusBitrate == {"Auto", "Max", "Bits"}

\* lines 172-186: Encoder::new and set_bitrate; either may return an error
SetupEncoder ==
    /\ pc = "encoder"
    /\ \E bitrate \in OpusBitrate, ok \in BOOLEAN :
         IF ok
         THEN pc' = "normalize" /\ result' = result
         ELSE pc' = "done" /\ result' = Err("Opus", "encoder setup")
    /\ UNCHANGED <<usize_bits, overflow_checks, origin, sample_count, wav_data,
                   stereo, data_start, wav_header, max_read, overrun, samples,
                   ogg_output, granule_position, frames, pad_arg, pad_ret>>

\* pcm_data = &wav_data[data_start..]
PcmLen(data, ds) == WInt(WSub(WavLen(data), ds))
PcmByte(data, ds, k) == ByteAt(data, WAdd(ds, W(k)))

\* lines 189-197: chunks_exact(2 * channel_count), then per frame
\* chunks_exact(2).map(from_le_bytes).take(if stereo { 2 } else { 1 })
Normalize16(data, ds, channel_count, st) ==
    LET frame_bytes == 2 * channel_count
        nframes == PcmLen(data, ds) \div frame_bytes
        wanted  == IF st THEN 2 ELSE 1
        taken   == IF channel_count < wanted THEN channel_count ELSE wanted
    IN  [i \in 1..(nframes * taken) |->
            LET f   == (i - 1) \div taken
                j   == (i - 1) % taken
                off == f * frame_bytes + 2 * j
            IN  i16_from_le_bytes(<<PcmByte(data, ds, off), PcmByte(data, ds, off + 1)>>)]

\* lines 198-201: every byte becomes (sample as i16 - 128) << 8
Normalize8(data, ds) ==
    [i \in 1..PcmLen(data, ds) |-> (PcmByte(data, ds, i - 1) - 128) * 256]

\* lines 188-208
Normalize ==
    /\ pc = "normalize"
    /\ LET h == wav_header
       IN  IF h.bits_per_sample = 16
           THEN IF h.channels = 0
                THEN /\ result' = Panic("chunk size must be non-zero")
                     /\ pc' = "done"
                     /\ samples' = samples
                ELSE /\ samples' = Normalize16(wav_data, h.data_start, h.channels, stereo)
                     /\ pc' = "headers"
                     /\ result' = result
           ELSE IF h.bits_per_sample = 8
           THEN /\ samples' = Normalize8(wav_data, h.data_start)
                /\ pc' = "headers"
                /\ result' = result
           ELSE /\ result' = Err("WavParsing", "Unsupported bit depth")
                /\ pc' = "done"
                /\ samples' = samples
    /\ UNCHANGED <<usize_bits, overflow_checks, origin, sample_count, wav_data,
                   stereo, data_start, wav_header, max_read, overrun, ogg_output,
                   granule_position, frames, pad_arg, pad_ret>>

\* create_opus_header: 19 bytes
create_opus_header(channels, sample_rate) ==
    LET header == <<79, 112, 117, 115, 72, 101, 97, 100, 1, channels, 0, 0>>
                     \o u32_to_le_bytes(W(sample_rate)) \o <<0, 0, 0>>
    IN  [header EXCEPT ![11] = 0, ![12] = 15]

\* create_opus_comment: magic, vendor string length, vendor string, comment count
create_opus_comment ==
    LET vendor_string == <<109, 105, 100, 105, 114, 101, 110, 100, 101, 114, 101, 114>>
    IN  <<79, 112, 117, 115, 84, 97, 103, 115>>
            \o u32_to_le_bytes(W(Len(vendor_string))) \o vendor_string \o <<0, 0, 0, 0>>

\* one write_packet call: payload kind and length, serial 1, end info, position
Packet(kind, len, info, granule) ==
    [kind |-> kind, len |-> len, serial |-> 1, end_info |-> info, granule |-> granule]

\* lines 210-232: the two header packets
WriteHeaders ==
    /\ pc = "headers"
    /\ granule_position' = 0
    /\ ogg_output' =
         <<Packet("OpusHead", Len(create_opus_header(Channels(stereo), SAMPLE_RATE)),
                  "EndPage", 0),
           Packet("OpusTags", Len(create_opus_comment), "EndPage", 0)>>
    /\ pc' = "encode"
    /\ UNCHANGED <<usize_bits, overflow_checks, origin, sample_count, wav_data,
                   stereo, data_start, wav_header, max_read, overrun, samples,
                   frames, result, pad_arg, pad_ret>>

\* lines 268-277
as_i16(x) == LET u == x % 65536 IN IF u >= 32768 THEN u - 65536 ELSE u

\* variant: pads a short chunk up to a full 20 ms frame
pad_chunk_to_full_frame(chunk, channels) ==
    LET min_length   == FRAME_SIZE * channels
        padding_size == as_i16(min_length) - as_i16(Len(chunk))
    IN  IF padding_size < 1 THEN chunk ELSE chunk \o Zeros(padding_size)

pad_chunk(chunk, channels) ==
    LET min_length   == MINIMUM_FRAME_SIZE * channels
        padding_size == as_i16(min_length) - as_i16(Len(chunk))
    IN  IF padding_size < 1 THEN chunk ELSE chunk \o Zeros(padding_size)

\* The external encoder.  opus::Encoder::encode passes len / channels as the
\* frame size; libopus accepts 2.5, 5, 10, 20, 40 and 60 ms frames only.
OpusFrameSizes == {SAMPLE_RATE \div 400, SAMPLE_RATE \div 200, SAMPLE_RATE \div 100,
                   SAMPLE_RATE \div 50, SAMPLE_RATE \div 25, 3 * (SAMPLE_RATE \div 50)}

\* lengths of a compressed packet the model draws from
PacketLens == {1, MAX_PACKET_SIZE}

\* outcomes of encoder.encode(chunk, &mut packet): 0 = an error, else the length
EncodeOutcomes(len, channels) ==
    IF (len \div channels) \in OpusFrameSizes THEN {0} \cup PacketLens ELSE {0}

\* variant: the position advances by the minimum frame instead of the frame
NextGranule_min_frame(g) == g + MINIMUM_FRAME_SIZE

\* granule_position.saturating_add(FRAME_SIZE as u64); u64::MAX is out of reach
NextGranule(g) == g + FRAME_SIZE

\* samples.chunks(FRAME_SIZE * channels): the samples consumed so far
Consumed == Len(frames) * FRAME_SIZE * Channels(stereo)

Min(a, b) == IF a < b THEN a ELSE b

\* variant: on an encoder error the packets written so far are returned
EncodeError_partial_output(out) == Ok(out)

\* what the caller receives when encoder.encode returns an error (`?`)
EncodeError(out) == Err("Opus", "encode")

\* lines 235-254: one iteration of the chunk loop
EncodeChunk ==
    /\ pc = "encode"
    /\ Consumed < Len(samples)
    /\ LET channels == Channels(stereo)
           chunk  == SubSeq(samples, Consumed + 1,
                            Min(Consumed + FRAME_SIZE * channels, Len(samples)))
           padded == pad_chunk(chunk, channels)
       IN  /\ frames' = Append(frames, Len(padded))
           /\ \E packet_len \in EncodeOutcomes(Len(padded), channels) :
                IF packet_len = 0
                THEN /\ result' = EncodeError(ogg_output)
                     /\ pc' = "done"
                     /\ UNCHANGED <<granule_position, ogg_output>>
                ELSE /\ granule_position' = NextGranule(granule_position)
                     /\ ogg_output' = Append(ogg_output,
                            Packet("audio", packet_len, "NormalPacket",
                                   NextGranule(granule_position)))
                     /\ pc' = "encode"
                     /\ result' = result
    /\ UNCHANGED <<usize_bits, overflow_checks, origin, sample_count, wav_data,
                   stereo, data_start, wav_header, max_read, overrun, samples,
                   pad_arg, pad_ret>>

\* lines 256-265: the end-of-stream packet and the return
FinishStream ==
    /\ pc = "encode"
    /\ Consumed >= Len(samples)
    /\ ogg_output' = Append(ogg_output, Packet("end", 0, "EndStream", granule_position))
    /\ result' = Ok(ogg_output')
    /\ pc' = "done"
    /\ UNCHANGED <<usize_bits, overflow_checks, origin, sample_count, wav_data,
                   stereo, data_start, wav_header, max_read, overrun, samples,
                   granule_position, frames, pad_arg, pad_ret>>

(***************************************************************************)
(* Specifications.                                                         *)
(***************************************************************************)
Init ==
    /\ usize_bits = 64 \/ usize_bits = 32
    /\ overflow_checks = FALSE \/ overflow_checks = TRUE
    /\ pc = "idle"
    /\ origin = "none"
    /\ sample_count = 0
    /\ wav_data = NoWav
    /\ stereo = FALSE
    /\ data_start = W(0)
    /\ wav_header = NoHeader
    /\ max_read = W(0)
    /\ overrun = FALSE
    /\ samples = <<>>
    /\ ogg_output = <<>>
    /\ granule_position = 0
    /\ frames = <<>>
    /\ result = NoResult
    /\ pad_arg = [chunk |-> <<>>, channels |-> 1]
    /\ pad_ret = <<>>

RenderInputs == {<<sc, 1>> : sc \in FrameCounts} \cup {<<FRAME_SIZE, 0>>}

Next ==
    \/ Render("render_midi_to_wav", RenderInputs)
    \/ Render("render_midi_with", RenderInputs)
    \/ SupplyWav
    \/ CallWavToOpusOgg
    \/ ParseBegin
    \/ ParseLoop
    \/ ParseCheck
    \/ CheckRate
    \/ SetupEncoder
    \/ Normalize
    \/ WriteHeaders
    \/ EncodeChunk
    \/ FinishStream

Spec == Init /\ [][Next]_vars

(***************************************************************************)
(* The writers over the 32-bit size-field range, followed by the reader.   *)
(***************************************************************************)
RangeCounts ==
    {0, 1, 2, 2^29 - 1, 2^29, 2^30 - 10, 2^30 - 9, 2^30 - 1, 2^30, 2^30 + 1,
     2^30 + 250, (2^30 - 1) + 2^30}

RangeInputs == {<<sc, p>> : sc \in RangeCounts, p \in {0, 1}}

NextWriter ==
    \/ Render("render_midi_to_wav", RangeInputs)
    \/ Render("render_midi_with", RangeInputs)
    \/ CallWavToOpusOgg
    \/ ParseBegin
    \/ ParseLoop
    \/ ParseCheck

SpecWriter == Init /\ [][NextWriter]_vars

(***************************************************************************)
(* pad_chunk on its own: every chunk length samples.chunks can yield.      *)
(***************************************************************************)
\* an arbitrary i16 sample
SampleAt(i) == ((i * 7919) % 65536) - 32768

PadInputs ==
    UNION {{[chunk |-> [i \in 1..len |-> SampleAt(i)], channels |-> ch] :
               len \in 1..(FRAME_SIZE * ch)} : ch \in {1, 2}}

InitPad ==
    /\ usize_bits = 64 \/ usize_bits = 32
    /\ overflow_checks = FALSE \/ overflow_checks = TRUE
    /\ pc = "pad_call"
    /\ origin = "none"
    /\ sample_count = 0
    /\ wav_data = NoWav
    /\ stereo = FALSE
    /\ data_start = W(0)
    /\ wav_header = NoHeader
    /\ max_read = W(0)
    /\ overrun = FALSE
    /\ samples = <<>>
    /\ ogg_output = <<>>
    /\ granule_position = 0
    /\ frames = <<>>
    /\ result = NoResult
    /\ pad_arg \in PadInputs
    /\ pad_ret = <<>>

PadCall ==
    /\ pc = "pad_call"
    /\ pad_ret' = pad_chunk(pad_arg.chunk, pad_arg.channels)
    /\ pc' = "pad_done"
    /\ UNCHANGED <<usize_bits, overflow_checks, origin, sample_count, wav_data,
                   stereo, data_start, wav_header, max_read, overrun, samples,
                   ogg_output, granule_position, frames, result, pad_arg>>

NextPad == PadCall

SpecPad == InitPad /\ [][NextPad]_vars

(***************************************************************************)
(* Vocabulary of the properties.                                           *)
(***************************************************************************)
Writers == {"render_midi_to_wav", "render_midi_with"}

\* parse_wav_header has returned (to wav_to_opus_ogg, or through `?` to the caller)
AfterParse == {"rate", "encoder", "normalize", "headers", "encode", "done"}
ParseReturned == pc \in AfterParse /\ wav_data # NoWav

\* chunks that samples.chunks(FRAME_SIZE * channels) yields
ChunkLen == FRAME_SIZE * Channels(stereo)
NChunks == (Len(samples) + ChunkLen - 1) \div ChunkLen

\* the samples have been normalized
Normalized == pc \in {"headers", "encode"} \/ (pc = "done" /\ ogg_output # <<>>)

\* data_start is the offset just past a chunk header tagged "data"
DataChunkLocated ==
    /\ wav_header.kind = "Ok"
    /\ WLe(W(8), wav_header.data_start)
    /\ Slice(wav_data, WSub(wav_header.data_start, W(8)), 4) = DATA

\* the RIFF chunk walk from `off`, as the format defines it: is there a chunk
\* header tagged "data"?
RECURSIVE DataChunkOnWalk(_, _)
DataChunkOnWalk(data, off) ==
    IF WLt(WavLen(data), WAdd(off, W(8))) THEN FALSE
    ELSE IF Slice(data, off, 4) = DATA THEN TRUE
    ELSE DataChunkOnWalk(data,
             WAdd(WAdd(off, W(8)), u32_from_le_bytes(Slice(data, WAdd(off, W(4)), 4))))

(***************************************************************************)
(* C1.  The position (granule) attached to every audio packet and to the   *)
(* end marker never exceeds the true number of per-channel samples of the  *)
(* normalized input, also when the final chunk is shorter than a full      *)
(* 20 ms frame.  Stated for the inputs whose data chunk the reader         *)
(* located.                                                                *)
(***************************************************************************)
C1_GranuleWithinRendered ==
    DataChunkLocated =>
        \A i \in 1..Len(ogg_output) :
            ogg_output[i].granule * Channels(stereo) <= Len(samples)

(***************************************************************************)
(* C2.  Round trip: the bytes a writer produced for any sample count       *)
(* n >= 0 are accepted by parse_wav_header, which returns 2 channels,      *)
(* 16 bits, the rate the writer wrote and data_start = 44.                 *)
(***************************************************************************)
C2_RoundTrip ==
    (origin \in Writers /\ ParseReturned) =>
        /\ wav_header.kind = "Ok"
        /\ wav_header.channels = 2
        /\ wav_header.bits_per_sample = 16
        /\ wav_header.sample_rate = W(WriterRate(origin))
        /\ wav_header.data_start = W(MIN_HEADER)

(***************************************************************************)
(* C3.  An input of at least 44 bytes with the RIFF and WAVE tags and no   *)
(* chunk tagged "data" on the chunk walk from offset 12 is rejected with   *)
(* "No data chunk found", whatever number of bytes follows the last chunk. *)
(* Stated for the inputs none of whose walked chunks declares a size that  *)
(* runs past the input (those are C4's).                                   *)
(***************************************************************************)
C3_NoDataChunkRejected ==
    (/\ origin = "caller"
     /\ ParseReturned
     /\ ~overrun
     /\ WLe(W(MIN_HEADER), WavLen(wav_data))
     /\ Slice(wav_data, W(0), 4) = RIFF
     /\ Slice(wav_data, W(8), 4) = WAVE
     /\ ~DataChunkOnWalk(wav_data, W(12)))
    => (/\ wav_header = HeaderErr("No data chunk found")
        /\ result = Err("WavParsing", "No data chunk found"))

(***************************************************************************)
(* C4.  The chunk walk never reads at or past the input length; a chunk    *)
(* whose declared size would move the scan offset past the end of the      *)
(* input makes the parse fail with a parsing error instead of being        *)
(* followed; a data_start returned in Ok is below the input length.        *)
(***************************************************************************)
C4_WalkStaysInBounds ==
    /\ WLe(max_read, WavLen(wav_data))
    /\ overrun =>
          /\ wav_header.kind # "Ok"
          /\ result.kind # "Panic"
          /\ pc = "walk" => LoopTest(data_start, WavLen(wav_data)) # "enter"
          /\ pc \in AfterParse => result.err = "WavParsing"
    /\ wav_header.kind = "Ok" => WLt(wav_header.data_start, WavLen(wav_data))

(***************************************************************************)
(* C5.  The writer's declared data size is 4 * sample_count and its RIFF   *)
(* size 36 + 4 * sample_count, in u32 fields: when a size exceeds 2^32 - 1 *)
(* the writer fails instead of writing a wrapped field, and otherwise the  *)
(* declared sizes equal the number of bytes written.                       *)
(***************************************************************************)
C5_SizeFieldsExact ==
    (origin \in Writers) =>
        IF Fits32(WAdd(W(36), WMul4(W(sample_count))))
        THEN wav_data # NoWav =>
                /\ u32_from_le_bytes(SubSeq(wav_data.pre, 41, 44)) = wav_data.n
                /\ WAdd(u32_from_le_bytes(SubSeq(wav_data.pre, 5, 8)), W(8))
                      = WavLen(wav_data)
        ELSE wav_data = NoWav /\ result.kind = "Panic"

(***************************************************************************)
(* C6.  Normalization honors the requested mode for source channel counts  *)
(* 1 and 2 and bit depths 8 and 16: one sample per source frame for mono,  *)
(* two for stereo; a 16-bit stereo source with mono requested yields the   *)
(* left-channel samples in source order.  Stated for the inputs whose data *)
(* chunk the reader located.                                               *)
(***************************************************************************)
C6_RequestedModeHonored ==
    (/\ Normalized
     /\ DataChunkLocated
     /\ wav_header.channels \in {1, 2}
     /\ wav_header.bits_per_sample \in {8, 16})
    => LET h == wav_header
           frame_bytes == h.channels * (h.bits_per_sample \div 8)
           nframes == PcmLen(wav_data, h.data_start) \div frame_bytes
       IN  /\ Len(samples) = nframes * Channels(stereo)
           /\ (h.channels = 2 /\ h.bits_per_sample = 16 /\ ~stereo) =>
                 \A f \in 1..nframes :
                     samples[f] = i16_from_le_bytes(
                         <<PcmByte(wav_data, h.data_start, 4 * (f - 1)),
                           PcmByte(wav_data, h.data_start, 4 * (f - 1) + 1)>>)

(***************************************************************************)
(* C7.  On Ok the packets are exactly: the identification packet at 0, the *)
(* comment packet at 0, N audio packets (N the number of chunks of         *)
(* 960 * channels samples) with the k-th at position 960 * k, and one      *)
(* zero-length end-of-stream packet at the last audio packet's position.   *)
(***************************************************************************)
C7_PacketSequence ==
    result.kind = "Ok" =>
        LET out == result.packets
            N   == NChunks
        IN  /\ Len(out) = N + 3
            /\ out[1].kind = "OpusHead" /\ out[1].granule = 0
            /\ out[2].kind = "OpusTags" /\ out[2].granule = 0
            /\ \A k \in 1..N :
                  /\ out[2 + k].kind = "audio"
                  /\ out[2 + k].granule = FRAME_SIZE * k
            /\ out[N + 3].kind = "end"
            /\ out[N + 3].len = 0
            /\ out[N + 3].end_info = "EndStream"
            /\ out[N + 3].granule = out[N + 2].granule

C7_Witness ==
    /\ result.kind = "Ok"
    /\ Len(result.packets) >= 5
    /\ result.packets[4].granule = 2 * FRAME_SIZE

(***************************************************************************)
(* C8.  All or nothing: an encoder failure on any chunk stops the          *)
(* operation at that chunk and the caller receives only the error; output  *)
(* is returned only when every chunk was encoded and the end-of-stream     *)
(* packet written; a sample rate other than 48000 is rejected before any   *)
(* packet is emitted.                                                      *)
(***************************************************************************)
C8_AllOrNothing ==
    /\ pc = "done" => ~ENABLED Next
    /\ result.kind # "none" => pc = "done"
    /\ result.kind # "Ok" => result.packets = <<>>
    /\ (result.err = "Opus" /\ result.msg = "encode") =>
          /\ Len(frames) >= 1
          /\ Len(ogg_output) = 2 + (Len(frames) - 1)
    /\ result.kind = "Ok" =>
          /\ Len(frames) = NChunks
          /\ result.packets = ogg_output
          /\ Len(ogg_output) = NChunks + 3
          /\ ogg_output[Len(ogg_output)].end_info = "EndStream"
    /\ (wav_header.kind = "Ok" /\ wav_header.sample_rate # W(SAMPLE_RATE)) =>
          /\ ogg_output = <<>>
          /\ frames = <<>>
          /\ pc \in {"rate", "done"}
          /\ pc = "done" => result = Err("WavParsing", "Unsupported sample rate")

C8_Witness ==
    /\ result.err = "Opus"
    /\ result.msg = "encode"
    /\ Len(frames) >= 2
    /\ Len(frames) < NChunks

(***************************************************************************)
(* C9.  pad_chunk, for channels 1 and 2 and chunk lengths 1 to             *)
(* 960 * channels: a chunk shorter than 480 * channels comes back as the   *)
(* original samples followed by zeros up to exactly 480 * channels; a      *)
(* longer one (every full chunk in particular) comes back unchanged.       *)
(***************************************************************************)
C9_PadChunk ==
    pc = "pad_done" =>
        LET chunk == pad_arg.chunk
            min   == MINIMUM_FRAME_SIZE * pad_arg.channels
        IN  IF Len(chunk) < min
            THEN /\ Len(pad_ret) = min
                 /\ SubSeq(pad_ret, 1, Len(chunk)) = chunk
                 /\ \A i \in (Len(chunk) + 1)..min : pad_ret[i] = 0
            ELSE pad_ret = chunk

C9_Witness ==
    /\ pc = "pad_done"
    /\ pad_arg.channels = 2
    /\ Len(pad_arg.chunk) = 2 * MINIMUM_FRAME_SIZE - 1
    /\ Len(pad_ret) = 2 * MINIMUM_FRAME_SIZE
    /\ pad_ret[2 * MINIMUM_FRAME_SIZE] = 0

(***************************************************************************)
(* C10.  Every chunk handed to the encoder is a whole encodable frame:     *)
(* exactly 480 * channels or 960 * channels samples.  Stated for the       *)
(* inputs whose data chunk the reader located.                             *)
(***************************************************************************)
C10_WholeFrames ==
    DataChunkLocated =>
        \A i \in 1..Len(frames) :
            frames[i] \in {MINIMUM_FRAME_SIZE * Channels(stereo),
                           FRAME_SIZE * Channels(stereo)}

====
